---- MODULE Spec2Model ----
(***************************************************************************)
(* AppHostFlatAdapter (src/apphost.go): two string-keyed registries        *)
(* (listeners, connections), each behind its own RWMutex, a closed flag,   *)
(* and the flat operations that look a resource up, call the underlying    *)
(* astral stack outside the lock, and store or remove a registry entry.    *)
(*                                                                         *)
(* Every goroutine calling into the adapter is a process p \in Procs.  A   *)
(* process is "idle" between calls, walks through the program points of    *)
(* the operation it called, reaches "ret" holding the operation's results, *)
(* and goes back to "idle".  Calls into the astral stack (Register,        *)
(* Accept, Query, Read, Write, Close, ...) are steps whose outcome is      *)
(* chosen nondeterministically.  A step that takes a lock is enabled when  *)
(* the lock is free (the writer preference of sync.RWMutex, which orders   *)
(* waiting callers, is not modelled).  Log, LogArr and Sleep touch no      *)
(* state of the adapter and are left out, as are the bytes written and the *)
(* query strings, on which no step of the adapter depends.                 *)
(***************************************************************************)
EXTENDS Integers, Sequences, FiniteSets, TLC

\* ------------------------------------------------------------------ bounds
NumProcs == 2        \* concurrent callers
MaxListeners == 2    \* listeners astral.Register hands out in one run
MaxConns == 2        \* streams Accept/Query/QueryName hand out in one run
MaxReads == 2        \* iterations of the read loop of one ConnRead
MaxCalls == 4        \* calls made in one run with concurrent callers
MaxLiveCalls == 3    \* calls made in one run where progress is checked

\* ------------------------------------------------------- program constants
BufSize == 4096      \* make([]byte, 4096)

Procs == 1 .. NumProcs
Names == {"echo"}
Ids == 1 .. MaxConns                 \* connection ids a caller may pass
Identities == {"", "02ab", "zz"}     \* identity strings a caller may pass
ReadSizes == {0, BufSize - 1, BufSize}   \* n returned by conn.Read(buf)

Nil == 0                             \* a nil listener / connection
NoProc == 0

VARIABLES
    closed,            \* api.closed
    listeners,         \* api.listeners: service name -> listener
    connections,       \* api.connections: connection id -> stream
    listenersMutex,    \* api.listenersMutex: [w: holder of Lock, r: holders of RLock]
    connectionsMutex,  \* api.connectionsMutex
    proc,              \* per caller: program point, arguments, locals, results
    lstn,              \* the listeners astral.Register has created, with their close state
    strm,              \* the streams Accept/Query/QueryName have created
    issued,            \* log of the identifiers uuid.New() has returned, with the stream of each
    hist               \* history of returned calls (what the claims speak about)

vars == <<closed, listeners, connections, listenersMutex, connectionsMutex,
          proc, lstn, strm, issued, hist>>

\* ------------------------------------------------------------------ helpers
Free == [w |-> NoProc, r |-> {}]

\* A caller between two calls.  svc, cid, ident: the call's argument (service
\* name, connection id, identity string); h: the listener or conn local; key, put:
\* the arguments of setListener / setConnection; err, id, arr: the results; todo:
\* the keys the range loops of the shutdown have still to visit; swept: the
\* resources the shutdown has called Close on, in order; pre: what held when the
\* call was made; touched: the call has issued a stream call.
IdleProc == [pc |-> "idle", op |-> "none", svc |-> "", cid |-> Nil, ident |-> "",
             h |-> Nil, key |-> Nil, put |-> Nil, err |-> "nil", id |-> Nil,
             arr |-> <<>>, todo |-> {}, swept |-> <<>>, pre |-> {}, touched |-> FALSE]

\* map[k] = v
MapSet(m, k, v) == [x \in (DOMAIN m) \cup {k} |-> IF x = k THEN v ELSE m[x]]
\* delete(map, k)
MapDelete(m, k) == [x \in (DOMAIN m) \ {k} |-> m[x]]
EmptyMap == <<>>

\* The close state of a resource: "none" (Close never called), "called" (Close
\* called, never succeeded), "ok" (a Close succeeded).
NewRes == "none"

\* the close state of a resource after a Close() on it has returned e
AfterClose(cl, e) == IF e = "nil" \/ cl = "ok" THEN "ok" ELSE "called"

Errs == {"nil", "Underlying"}

\* proc with the fields of p changed as in the record chg
Upd(p, chg) ==
    [proc EXCEPT ![p] = [f \in DOMAIN @ |-> IF f \in DOMAIN chg THEN chg[f] ELSE @[f]]]

\* the operation returns: results are in proc[p]
\* (the locals h, key, put, todo are dead)
Ret(p, chg) == Upd(p, chg @@ [pc |-> "ret", h |-> Nil, key |-> Nil, put |-> Nil, todo |-> {}])
Ret0(p) == Ret(p, [pc |-> "ret"])

\* id.ParsePublicKeyHex(identity) succeeds
WellFormedKeys == {"02ab"}
\* (a changed ParsePublicKeyHex: every string is taken for a key)
ParseAnything(identity) == TRUE

ParsePublicKeyHex(identity) == identity \in WellFormedKeys

\* (a changed NewUUID: the identifier numbers the live entries, so that one is
\* handed out again once an entry has gone or while a store is pending)
NewUUIDLive == Cardinality(DOMAIN connections) + 1

\* uuid.New().String(): a value never returned before
NewUUID == Len(issued) + 1

\* getListener's result (Nil: ok = false)
GetListener(service) ==
    IF closed THEN Nil
    ELSE IF service \in DOMAIN listeners THEN listeners[service] ELSE Nil

\* (a changed setListener: the closed flag is not looked at)
SetListenerOpen(service, listener) ==
    IF listener # Nil THEN MapSet(listeners, service, listener)
    ELSE MapDelete(listeners, service)

\* the listeners map after setListener(service, listener)
SetListener(service, listener) ==
    IF closed THEN listeners
    ELSE IF listener # Nil THEN MapSet(listeners, service, listener)
    ELSE MapDelete(listeners, service)

\* getConnection's result (Nil: ok = false)
GetConnection(connectionId) ==
    IF closed THEN Nil
    ELSE IF connectionId \in DOMAIN connections THEN connections[connectionId] ELSE Nil

\* (a changed SetConnection: a nil connection deletes nothing)
SetConnectionKeeps(connectionId, connection) ==
    IF closed THEN connections
    ELSE IF connection # Nil THEN MapSet(connections, connectionId, connection)
    ELSE connections

\* (a changed SetConnection: the nil test inverted)
SetConnectionSwapped(connectionId, connection) ==
    IF closed THEN connections
    ELSE IF connection = Nil THEN MapSet(connections, connectionId, connection)
    ELSE MapDelete(connections, connectionId)

\* the connections map after setConnection(connectionId, connection)
SetConnection(connectionId, connection) ==
    IF closed THEN connections
    ELSE IF connection # Nil THEN MapSet(connections, connectionId, connection)
    ELSE MapDelete(connections, connectionId)

\* ServiceClose: the condition under which it calls setListener(service, nil)
ServiceCloseRemoves(err) == err # "nil"

\* (a changed ConnCloseRemoves: the entry is never removed / always removed)
ConnCloseRemovesNever(err) == FALSE
ConnCloseRemovesAlways(err) == TRUE

\* ConnClose: the condition under which it calls setConnection(id, nil)
ConnCloseRemoves(err) == err = "nil"

\* ------------------------------------------------------------------- Init
\* expect[n]: the last RegisterService(n) that returned succeeded and no
\* CloseService(n) has returned success since; closedIds: the identifiers a
\* CloseConnection has returned success on; calls: the calls made so far (counted
\* where the number of calls is bounded)
NoHist == [expect |-> [n \in Names |-> FALSE], closedIds |-> {}, calls |-> 0]

\* hist after one more call has been made
Called == [hist EXCEPT !.calls = @ + 1]

Init ==
    /\ closed = FALSE
    /\ listeners = EmptyMap
    /\ connections = EmptyMap
    /\ listenersMutex = Free
    /\ connectionsMutex = Free
    /\ proc = [p \in Procs |-> IdleProc]
    /\ lstn = <<>>
    /\ strm = <<>>
    /\ issued = <<>>
    /\ hist = NoHist

env == <<lstn, strm, issued>>
regs == <<closed, listeners, connections>>
locks == <<listenersMutex, connectionsMutex>>

\* what holds when p makes a call: the shutdown flag is set ("closed"), a
\* CloseConnection has succeeded on the identifier ("stale"), the identifier has
\* never been issued ("unissued")
Pre(p, cid) ==
    (IF closed THEN {"closed"} ELSE {})
    \cup (IF cid \in hist.closedIds THEN {"stale"} ELSE {})
    \cup (IF cid # Nil /\ \A i \in DOMAIN issued : issued[i].id # cid
          THEN {"unissued"} ELSE {})

\* a ConnAccept of another caller on the same service name is in progress
Overlap(p, o, s) ==
    IF /\ o = "ConnAccept"
       /\ \E q \in Procs \ {p} :
             /\ proc[q].op = "ConnAccept" /\ proc[q].svc = s
             /\ proc[q].pc \notin {"idle", "ret"}
    THEN {"overlap"} ELSE {}

\* --------------------------------------------------------------- the calls
ServiceOps == {"ServiceClose", "ConnAccept"}
ConnOps == {"ConnClose", "ConnWrite", "ConnRead"}

\* A caller enters an operation whose first statement takes a registry lock:
\* ServiceClose, ConnAccept (getListener), ConnClose, ConnWrite, ConnRead
\* (getConnection), CloseAppHostFlatAdapter (listenersMutex.Lock).  The other
\* operations begin with a call of the astral stack: their entry is part of
\* that step.
Call(p) ==
    /\ proc[p].pc = "idle"
    /\ \/ \E s \in Names, o \in ServiceOps :
             proc' = Upd(p, [pc |-> "getL", op |-> o, svc |-> s,
                             pre |-> Pre(p, Nil) \cup Overlap(p, o, s)])
       \/ \E i \in Ids, o \in ConnOps :
             proc' = Upd(p, [pc |-> "getC", op |-> o, cid |-> i, pre |-> Pre(p, i)])
       \/ proc' = Upd(p, [pc |-> "sdLockL", op |-> "Shutdown", pre |-> Pre(p, Nil)])
    /\ UNCHANGED <<regs, locks, env>>

\* ------------------------------------------------- the registry accessors
\* getListener: listenersMutex.RLock()
GetListenerLock(p) ==
    /\ proc[p].pc = "getL"
    /\ listenersMutex.w = NoProc
    /\ listenersMutex' = [listenersMutex EXCEPT !.r = @ \cup {p}]
    /\ proc' = Upd(p, [pc |-> "getL_cs"])
    /\ UNCHANGED <<regs, connectionsMutex, env, hist>>

\* (a changed GetListenerRead: the caller does not look at ok)
GetListenerReadUnchecked(p) ==
    /\ proc[p].pc = "getL_cs"
    /\ listenersMutex' = [listenersMutex EXCEPT !.r = @ \ {p}]
    /\ proc' = Upd(p, [h |-> GetListener(proc[p].svc),
                       pc |-> IF proc[p].op = "ServiceClose" THEN "lclose" ELSE "accept"])
    /\ UNCHANGED <<regs, connectionsMutex, env, hist>>

\* getListener: the lookup and the deferred RUnlock; then the caller's `if !ok`
GetListenerRead(p) ==
    /\ proc[p].pc = "getL_cs"
    /\ listenersMutex' = [listenersMutex EXCEPT !.r = @ \ {p}]
    /\ LET l == GetListener(proc[p].svc) IN
         IF l = Nil
         THEN proc' = Ret(p, [err |-> "NotFound"])
         ELSE proc' = Upd(p, [h |-> l,
                              pc |-> IF proc[p].op = "ServiceClose" THEN "lclose" ELSE "accept"])
    /\ UNCHANGED <<regs, connectionsMutex, env, hist>>

\* setListener: listenersMutex.Lock()
SetListenerLock(p) ==
    /\ proc[p].pc = "setL"
    /\ listenersMutex = Free
    /\ listenersMutex' = [listenersMutex EXCEPT !.w = p]
    /\ proc' = Upd(p, [pc |-> "setL_cs"])
    /\ UNCHANGED <<regs, connectionsMutex, env, hist>>

\* setListener: the store or delete and the deferred Unlock; the caller returns
SetListenerWrite(p) ==
    /\ proc[p].pc = "setL_cs"
    /\ listeners' = SetListener(proc[p].svc, proc[p].put)
    /\ listenersMutex' = Free
    /\ proc' = Ret0(p)
    /\ UNCHANGED <<closed, connections, connectionsMutex, env, hist>>

\* (a changed GetConnectionLock: the lookup does not wait for the lock)
GetConnectionNoWait(p) ==
    /\ proc[p].pc = "getC"
    /\ connectionsMutex' = [connectionsMutex EXCEPT !.r = @ \cup {p}]
    /\ proc' = Upd(p, [pc |-> "getC_cs"])
    /\ UNCHANGED <<regs, listenersMutex, env, hist>>

\* getConnection: connectionsMutex.RLock()
GetConnectionLock(p) ==
    /\ proc[p].pc = "getC"
    /\ connectionsMutex.w = NoProc
    /\ connectionsMutex' = [connectionsMutex EXCEPT !.r = @ \cup {p}]
    /\ proc' = Upd(p, [pc |-> "getC_cs"])
    /\ UNCHANGED <<regs, listenersMutex, env, hist>>

\* (a changed GetConnectionRead: the read lock is kept after the lookup)
GetConnectionReadKeepsLock(p) ==
    /\ proc[p].pc = "getC_cs"
    /\ LET c == GetConnection(proc[p].cid) IN
         IF c = Nil
         THEN proc' = Ret(p, [err |-> "NotFound"])
         ELSE proc' = Upd(p, [h |-> c,
                              pc |-> CASE proc[p].op = "ConnClose" -> "cclose"
                                       [] proc[p].op = "ConnWrite" -> "write"
                                       [] OTHER -> "read"])
    /\ UNCHANGED <<regs, locks, env, hist>>

\* getConnection: the lookup and the deferred RUnlock; then the caller's `if !ok`
GetConnectionRead(p) ==
    /\ proc[p].pc = "getC_cs"
    /\ connectionsMutex' = [connectionsMutex EXCEPT !.r = @ \ {p}]
    /\ LET c == GetConnection(proc[p].cid) IN
         IF c = Nil
         THEN proc' = Ret(p, [err |-> "NotFound"])
         ELSE proc' = Upd(p, [h |-> c,
                              pc |-> CASE proc[p].op = "ConnClose" -> "cclose"
                                       [] proc[p].op = "ConnWrite" -> "write"
                                       [] OTHER -> "read"])
    /\ UNCHANGED <<regs, listenersMutex, env, hist>>

\* setConnection: connectionsMutex.Lock()
SetConnectionLock(p) ==
    /\ proc[p].pc = "setC"
    /\ connectionsMutex = Free
    /\ connectionsMutex' = [connectionsMutex EXCEPT !.w = p]
    /\ proc' = Upd(p, [pc |-> "setC_cs"])
    /\ UNCHANGED <<regs, listenersMutex, env, hist>>

\* (a changed SetConnectionWrite: the lock is not released)
SetConnectionKeepsLock(p) ==
    /\ proc[p].pc = "setC_cs"
    /\ connections' = SetConnection(proc[p].key, proc[p].put)
    /\ proc' = Ret0(p)
    /\ UNCHANGED <<closed, listeners, locks, env, hist>>

\* setConnection: the store or delete and the deferred Unlock; the caller returns
SetConnectionWrite(p) ==
    /\ proc[p].pc = "setC_cs"
    /\ connections' = SetConnection(proc[p].key, proc[p].put)
    /\ connectionsMutex' = Free
    /\ proc' = Ret0(p)
    /\ UNCHANGED <<closed, listeners, listenersMutex, env, hist>>

\* ------------------------------------------------------------- the services
\* ServiceRegister: astral.Register(service), then setListener on success
Register(p) ==
    /\ proc[p].pc = "idle"
    /\ \E s \in Names :
        LET in == [op |-> "ServiceRegister", svc |-> s, pre |-> Pre(p, Nil)] IN
          \/ /\ proc' = Ret(p, in @@ [err |-> "Underlying"])
             /\ UNCHANGED lstn
          \/ /\ Len(lstn) < MaxListeners
             /\ lstn' = Append(lstn, NewRes)
             /\ proc' = Upd(p, in @@ [pc |-> "setL", put |-> Len(lstn) + 1])
    /\ UNCHANGED <<regs, locks, strm, issued>>

\* ServiceClose: listener.Close(), then setListener(service, nil) or return
ListenerClose(p) ==
    /\ proc[p].pc = "lclose"
    /\ \E e \in Errs :
          /\ lstn' = [lstn EXCEPT ![proc[p].h] = AfterClose(@, e)]
          /\ IF ServiceCloseRemoves(e)
             THEN proc' = Upd(p, [pc |-> "setL", err |-> e, put |-> Nil])
             ELSE proc' = Ret(p, [err |-> e])
    /\ UNCHANGED <<regs, locks, strm, issued, hist>>

\* the identifier and the stream of a successful Accept / Query / QueryName,
\* handed to setConnection
Store(p, in, newId) ==
    /\ Len(strm) < MaxConns
    /\ strm' = Append(strm, NewRes)
    /\ issued' = Append(issued, [id |-> newId, conn |-> Len(strm) + 1])
    /\ proc' = Upd(p, in @@ [pc |-> "setC", id |-> newId, key |-> newId,
                              put |-> Len(strm) + 1])

\* (a changed Accept: the error of listener.Accept() is not looked at)
AcceptUnchecked(p) ==
    /\ proc[p].pc = "accept"
    /\ \/ /\ proc' = Upd(p, [pc |-> "setC", err |-> "Underlying", id |-> NewUUID,
                             key |-> NewUUID, put |-> Nil])
          /\ UNCHANGED <<strm, issued>>
       \/ Store(p, [h |-> proc[p].h], NewUUID)
    /\ UNCHANGED <<regs, locks, lstn, hist>>

\* ConnAccept: listener.Accept(), then uuid.New() and setConnection on success
Accept(p) ==
    /\ proc[p].pc = "accept"
    /\ \/ /\ proc' = Ret(p, [err |-> "Underlying"])
          /\ UNCHANGED <<strm, issued>>
       \/ Store(p, [h |-> proc[p].h], NewUUID)
    /\ UNCHANGED <<regs, locks, lstn, hist>>

\* ---------------------------------------------------------- the connections
\* ConnClose: conn.Close(), then setConnection(id, nil) or return
ConnectionClose(p) ==
    /\ proc[p].pc = "cclose"
    /\ \E e \in Errs :
          /\ strm' = [strm EXCEPT ![proc[p].h] = AfterClose(@, e)]
          /\ IF ConnCloseRemoves(e)
             THEN proc' = Upd(p, [pc |-> "setC", err |-> e, key |-> proc[p].cid,
                                  put |-> Nil, touched |-> TRUE])
             ELSE proc' = Ret(p, [err |-> e, touched |-> TRUE])
    /\ UNCHANGED <<regs, locks, lstn, issued, hist>>

\* ConnWrite: conn.Write([]byte(data))
Write(p) ==
    /\ proc[p].pc = "write"
    /\ \E e \in Errs : proc' = Ret(p, [err |-> e, touched |-> TRUE])
    /\ UNCHANGED <<regs, locks, env, hist>>

\* (a changed ReadStops: the loop goes on until a read returns nothing)
ReadStopsOnEmpty(n) == n = 0

\* ConnRead: `if n < len(buf)`, the read that ends the loop
ReadStops(n) == n < BufSize

\* (a changed Read: a failed read drops the connection from the registry)
ReadDropsOnError(p) ==
    /\ proc[p].pc = "read"
    /\ \/ /\ proc' = Ret(p, [err |-> "Underlying", touched |-> TRUE])
          /\ connections' = MapDelete(connections, proc[p].cid)
       \/ /\ \E n \in ReadSizes :
                /\ ~ReadStops(n) => Len(proc[p].arr) + 1 < MaxReads
                /\ IF ReadStops(n)
                   THEN proc' = Ret(p, [arr |-> Append(proc[p].arr, n), touched |-> TRUE])
                   ELSE proc' = Upd(p, [arr |-> Append(proc[p].arr, n), touched |-> TRUE])
          /\ UNCHANGED connections
    /\ UNCHANGED <<closed, listeners, locks, env, hist>>

\* ConnRead: one iteration of the loop: conn.Read(buf), append buf[0:n],
\* return on an error or on n < len(buf)
Read(p) ==
    /\ proc[p].pc = "read"
    /\ \/ proc' = Ret(p, [err |-> "Underlying", touched |-> TRUE])
       \/ \E n \in ReadSizes :
             /\ ~ReadStops(n) => Len(proc[p].arr) + 1 < MaxReads
             /\ IF ReadStops(n)
                THEN proc' = Ret(p, [arr |-> Append(proc[p].arr, n), touched |-> TRUE])
                ELSE proc' = Upd(p, [arr |-> Append(proc[p].arr, n), touched |-> TRUE])
    /\ UNCHANGED <<regs, locks, env, hist>>

\* ---------------------------------------------------------------- queries
\* Query: ParsePublicKeyHex unless identity is empty, astral.Query, then
\* uuid.New() and setConnection on success
Query(p) ==
    /\ proc[p].pc = "idle"
    /\ \E s \in Identities :
        LET in == [op |-> "Query", ident |-> s, pre |-> Pre(p, Nil)] IN
          IF s # "" /\ ~ParsePublicKeyHex(s)
          THEN /\ proc' = Ret(p, in @@ [err |-> "Malformed"])
               /\ UNCHANGED <<strm, issued>>
          ELSE \/ /\ proc' = Ret(p, in @@ [err |-> "Underlying"])
                  /\ UNCHANGED <<strm, issued>>
               \/ Store(p, in, NewUUID)
    /\ UNCHANGED <<regs, locks, lstn>>

\* QueryName: astral.QueryName, then uuid.New() and setConnection on success
QueryName(p) ==
    /\ proc[p].pc = "idle"
    /\ LET in == [op |-> "QueryName", pre |-> Pre(p, Nil)] IN
          \/ /\ proc' = Ret(p, in @@ [err |-> "Underlying"])
             /\ UNCHANGED <<strm, issued>>
          \/ Store(p, in, NewUUID)
    /\ UNCHANGED <<regs, locks, lstn>>

\* Resolve: astral.Resolve(name)
Resolve(p) ==
    /\ proc[p].pc = "idle"
    /\ \E e \in Errs :
          proc' = Ret(p, [op |-> "Resolve", pre |-> Pre(p, Nil), err |-> e])
    /\ UNCHANGED <<regs, locks, env>>

\* NodeInfo: ParsePublicKeyHex, then astral.GetNodeInfo
NodeInfo(p) ==
    /\ proc[p].pc = "idle"
    /\ \E s \in Identities :
        LET in == [op |-> "NodeInfo", ident |-> s, pre |-> Pre(p, Nil)] IN
          IF ~ParsePublicKeyHex(s)
          THEN proc' = Ret(p, in @@ [err |-> "Malformed"])
          ELSE \E e \in Errs : proc' = Ret(p, in @@ [err |-> e])
    /\ UNCHANGED <<regs, locks, env>>

\* ----------------------------------------------- CloseAppHostFlatAdapter
\* api.listenersMutex.Lock()
ShutdownLockListeners(p) ==
    /\ proc[p].pc = "sdLockL"
    /\ listenersMutex = Free
    /\ listenersMutex' = [listenersMutex EXCEPT !.w = p]
    /\ proc' = Upd(p, [pc |-> "sdLockC"])
    /\ UNCHANGED <<regs, connectionsMutex, env, hist>>

\* api.connectionsMutex.Lock(); the range over api.listeners begins
ShutdownLockConnections(p) ==
    /\ proc[p].pc = "sdLockC"
    /\ connectionsMutex = Free
    /\ connectionsMutex' = [connectionsMutex EXCEPT !.w = p]
    /\ proc' = Upd(p, [pc |-> "sdCloseL", todo |-> DOMAIN listeners])
    /\ UNCHANGED <<regs, listenersMutex, env, hist>>

\* for _, closer := range api.listeners { _ = closer.Close() }
ShutdownCloseListeners(p) ==
    /\ proc[p].pc = "sdCloseL"
    /\ IF proc[p].todo # {}
       THEN \E k \in proc[p].todo, e \in Errs :
              /\ lstn' = [lstn EXCEPT ![listeners[k]] = AfterClose(@, e)]
              /\ proc' = Upd(p, [todo |-> proc[p].todo \ {k},
                                  swept |-> Append(proc[p].swept, <<"l", listeners[k]>>)])
       ELSE /\ proc' = Upd(p, [pc |-> "sdCloseC", todo |-> DOMAIN connections])
            /\ UNCHANGED lstn
    /\ UNCHANGED <<regs, locks, strm, issued, hist>>

\* (a changed ShutdownCloseConnections: the connections are not closed)
ShutdownSkipConnections(p) ==
    /\ proc[p].pc = "sdCloseC"
    /\ proc' = Upd(p, [pc |-> "sdClear", todo |-> {}])
    /\ UNCHANGED <<regs, locks, env, hist>>

\* for _, closer := range api.connections { _ = closer.Close() }
ShutdownCloseConnections(p) ==
    /\ proc[p].pc = "sdCloseC"
    /\ IF proc[p].todo # {}
       THEN \E k \in proc[p].todo, e \in Errs :
              /\ strm' = [strm EXCEPT ![connections[k]] = AfterClose(@, e)]
              /\ proc' = Upd(p, [todo |-> proc[p].todo \ {k},
                                  swept |-> Append(proc[p].swept, <<"c", connections[k]>>)])
       ELSE /\ proc' = Upd(p, [pc |-> "sdClear"])
            /\ UNCHANGED strm
    /\ UNCHANGED <<regs, locks, lstn, issued, hist>>

\* api.connections = nil; api.listeners = nil; api.closed = true
ShutdownClear(p) ==
    /\ proc[p].pc = "sdClear"
    /\ connections' = EmptyMap
    /\ listeners' = EmptyMap
    /\ closed' = TRUE
    /\ proc' = Upd(p, [pc |-> "sdUnlockC"])
    /\ UNCHANGED <<locks, env, hist>>

\* deferred api.connectionsMutex.Unlock()
ShutdownUnlockConnections(p) ==
    /\ proc[p].pc = "sdUnlockC"
    /\ connectionsMutex' = Free
    /\ proc' = Upd(p, [pc |-> "sdUnlockL"])
    /\ UNCHANGED <<regs, listenersMutex, env, hist>>

\* deferred api.listenersMutex.Unlock(); the shutdown returns
ShutdownUnlockListeners(p) ==
    /\ proc[p].pc = "sdUnlockL"
    /\ listenersMutex' = Free
    /\ proc' = Ret0(p)
    /\ UNCHANGED <<regs, connectionsMutex, env, hist>>

\* ------------------------------------------------------------- the return
\* the history after the call of p has returned
Record(p) ==
    LET c == proc[p] IN
    CASE c.op = "ServiceRegister" ->
           [hist EXCEPT !.expect[c.svc] = (c.err = "nil")]
      [] c.op = "ServiceClose" /\ c.err = "nil" ->
           [hist EXCEPT !.expect[c.svc] = FALSE]
      [] c.op = "ConnClose" /\ c.err = "nil" ->
           [hist EXCEPT !.closedIds = @ \cup {c.cid}]
      [] OTHER -> hist

\* The caller has the results; it is free to make its next call.
Return(p) ==
    /\ proc[p].pc = "ret"
    /\ hist' = Record(p)
    /\ proc' = [proc EXCEPT ![p] = IdleProc]
    /\ UNCHANGED <<regs, locks, env>>

\* ------------------------------------------------------ the specifications
Work(p) ==
    \/ GetListenerLock(p) \/ GetListenerRead(p)
    \/ SetListenerLock(p) \/ SetListenerWrite(p)
    \/ GetConnectionLock(p) \/ GetConnectionRead(p)
    \/ SetConnectionLock(p) \/ SetConnectionWrite(p)
    \/ ListenerClose(p) \/ Accept(p)
    \/ ConnectionClose(p) \/ Write(p) \/ Read(p)
    \/ ShutdownLockListeners(p) \/ ShutdownLockConnections(p)
    \/ ShutdownCloseListeners(p) \/ ShutdownCloseConnections(p)
    \/ ShutdownClear(p)
    \/ ShutdownUnlockConnections(p) \/ ShutdownUnlockListeners(p)
    \/ Return(p)

\* any number of goroutines call into the adapter concurrently
\* (at most MaxCalls calls in one run: the interleavings of MaxCalls calls)
Budget == hist.calls < MaxCalls

CallB(p) == Budget /\ Call(p) /\ hist' = Called
RegisterB(p) == Budget /\ Register(p) /\ hist' = Called
QueryB(p) == Budget /\ Query(p) /\ hist' = Called
QueryNameB(p) == Budget /\ QueryName(p) /\ hist' = Called
ResolveB(p) == Budget /\ Resolve(p) /\ hist' = Called
NodeInfoB(p) == Budget /\ NodeInfo(p) /\ hist' = Called

Next ==
    \E p \in Procs :
        \/ CallB(p) \/ RegisterB(p) \/ QueryB(p) \/ QueryNameB(p)
        \/ ResolveB(p) \/ NodeInfoB(p)
        \/ Work(p)

Spec == Init /\ [][Next]_vars

\* p takes a registry lock
TakeLock(p) ==
    \/ GetListenerLock(p) \/ SetListenerLock(p)
    \/ GetConnectionLock(p) \/ SetConnectionLock(p)
    \/ ShutdownLockListeners(p) \/ ShutdownLockConnections(p)

\* p, holding a registry lock, takes its next step
HoldLock(p) ==
    \/ GetListenerRead(p) \/ SetListenerWrite(p)
    \/ GetConnectionRead(p) \/ SetConnectionWrite(p)
    \/ ShutdownCloseListeners(p) \/ ShutdownCloseConnections(p)
    \/ ShutdownClear(p)
    \/ ShutdownUnlockConnections(p) \/ ShutdownUnlockListeners(p)

\* What the scheduling guarantees to a caller p.  A sync.RWMutex hands a
\* lock that is released again and again to every waiter in the end (SF); a
\* caller that holds a lock, and the shutdown inside its loops (its Close
\* calls return), go on (WF).  Nothing is assumed of a caller that is inside
\* Accept, Read, Write or Close of the underlying stack, nor of one that has
\* yet to make its call: it may stay there for ever.
Fair(p) == SF_vars(TakeLock(p)) /\ WF_vars(HoldLock(p))

\* the interleavings of MaxLiveCalls calls, under that scheduling
LiveBudget == hist.calls < MaxLiveCalls

CallLive(p) == LiveBudget /\ Call(p) /\ hist' = Called
RegisterLive(p) == LiveBudget /\ Register(p) /\ hist' = Called
QueryLive(p) == LiveBudget /\ Query(p) /\ hist' = Called
QueryNameLive(p) == LiveBudget /\ QueryName(p) /\ hist' = Called
ResolveLive(p) == LiveBudget /\ Resolve(p) /\ hist' = Called
NodeInfoLive(p) == LiveBudget /\ NodeInfo(p) /\ hist' = Called

NextLive ==
    \E p \in Procs :
        \/ CallLive(p) \/ RegisterLive(p) \/ QueryLive(p) \/ QueryNameLive(p)
        \/ ResolveLive(p) \/ NodeInfoLive(p)
        \/ Work(p)

SpecLive == Init /\ [][NextLive]_vars /\ \A p \in Procs : Fair(p)

\* sequential use: one caller (the embedding host), which makes a call only
\* when its earlier call has returned
Host == CHOOSE p \in Procs : TRUE
Alone(p) == p = Host /\ \A q \in Procs \ {p} : proc[q].pc = "idle"

CallSeq(p) == Alone(p) /\ Call(p) /\ UNCHANGED hist
RegisterSeq(p) == Alone(p) /\ Register(p) /\ UNCHANGED hist
QuerySeq(p) == Alone(p) /\ Query(p) /\ UNCHANGED hist
QueryNameSeq(p) == Alone(p) /\ QueryName(p) /\ UNCHANGED hist
ResolveSeq(p) == Alone(p) /\ Resolve(p) /\ UNCHANGED hist
NodeInfoSeq(p) == Alone(p) /\ NodeInfo(p) /\ UNCHANGED hist

NextSeq ==
    \E p \in Procs :
        \/ CallSeq(p) \/ RegisterSeq(p) \/ QuerySeq(p) \/ QueryNameSeq(p)
        \/ ResolveSeq(p) \/ NodeInfoSeq(p)
        \/ Work(p)

SpecSeq == Init /\ [][NextSeq]_vars

\* =================================================================== claims
AtRet(p, o) == proc[p].pc = "ret" /\ proc[p].op = o
Quiet == \A p \in Procs : proc[p].pc = "idle"
\* the stream that was issued together with the identifier i
IssuedConn(i) == {issued[k].conn : k \in {k \in DOMAIN issued : issued[k].id = i}}

\* C1 (the claim as stated; the code violates it): when CloseService(name) on
\* a registered name returns, the name has left the listener registry if the
\* underlying listener close succeeded, and is still registered if it failed.
C1_CloseServiceRemovesOnlyOnSuccess ==
    \A p \in Procs :
        AtRet(p, "ServiceClose") /\ proc[p].err # "NotFound"
            => (proc[p].err = "nil" <=> proc[p].svc \notin DOMAIN listeners)

\* C2 (the claim as stated; the code violates it): with no call in progress and
\* no shutdown, a name is in the listener registry exactly when the most recent
\* RegisterService on it succeeded and no CloseService after it succeeded.
C2_EntryIffRegisteredAndNotClosed ==
    (Quiet /\ ~closed) => \A n \in Names : (n \in DOMAIN listeners <=> hist.expect[n])

C4_ConnCloseKeepsEntryOnFailure ==
    \A p \in Procs :
        AtRet(p, "ConnClose") /\ proc[p].err # "NotFound"
            => IF proc[p].err = "nil"
               THEN proc[p].cid \notin DOMAIN connections
               ELSE /\ proc[p].cid \in DOMAIN connections
                    /\ connections[proc[p].cid] \in IssuedConn(proc[p].cid)

\* C4 witness: a CloseConnection whose underlying close failed has returned,
\* after an earlier CloseConnection on the same stream had failed too (a retry)
C4_Witness ==
    \E p \in Procs :
        /\ AtRet(p, "ConnClose") /\ proc[p].err = "Underlying"
        /\ proc[p].cid \in DOMAIN connections
        /\ strm[connections[proc[p].cid]] = "called"

\* C5 (the claim as stated; the code violates it): a facade operation called
\* after the shutdown has set the flag does not succeed: it returns an error
\* and no connection identifier.
FacadeOps == {"ServiceRegister", "ServiceClose", "ConnAccept", "ConnClose",
              "ConnRead", "ConnWrite", "Query", "QueryName"}

C5_NoSuccessAfterShutdown ==
    \A p \in Procs :
        proc[p].pc = "ret" /\ proc[p].op \in FacadeOps /\ "closed" \in proc[p].pre
            => proc[p].err # "nil" /\ proc[p].id = Nil

\* C6 (the claim as stated; the code violates it): no caller is about to call
\* Close on a stream or listener on which a Close has succeeded, and no caller
\* is about to call Read, Write or Accept on a stream or listener on which
\* Close has been called.
C6_NoDoubleCloseNoUseAfterClose ==
    \A p \in Procs :
        /\ proc[p].pc = "cclose" => strm[proc[p].h] # "ok"
        /\ proc[p].pc = "lclose" => lstn[proc[p].h] # "ok"
        /\ proc[p].pc \in {"read", "write"} => strm[proc[p].h] = "none"
        /\ proc[p].pc = "accept" => lstn[proc[p].h] = "none"
        /\ proc[p].pc = "sdCloseL" => \A k \in proc[p].todo : lstn[listeners[k]] # "ok"
        /\ proc[p].pc = "sdCloseC" => \A k \in proc[p].todo : strm[connections[k]] # "ok"

\* C7: in sequential use, ReadConnection, WriteConnection and CloseConnection
\* called on an identifier that was never issued, or on which a CloseConnection
\* has succeeded, return NotFound and have made no call on a stream.
C7_UnknownOrClosedIdNotFound ==
    \A p \in Procs :
        (/\ proc[p].pc = "ret"
         /\ proc[p].op \in ConnOps
         /\ proc[p].pre \cap {"stale", "unissued"} # {})
            => proc[p].err = "NotFound" /\ ~proc[p].touched

\* C7 witness: a service is registered, an identifier was issued, its
\* connection was closed with success, and a read called on the identifier
\* afterwards has returned NotFound
C7_Witness ==
    \E p \in Procs :
        /\ AtRet(p, "ConnRead")
        /\ proc[p].cid \in hist.closedIds
        /\ "stale" \in proc[p].pre
        /\ proc[p].err = "NotFound"
        /\ "echo" \in DOMAIN listeners

\* C8: with no shutdown and no successful CloseConnection, once every call has
\* returned the connection registry holds exactly one entry for each stream a
\* successful accept (or query) produced, under the identifier returned for
\* it, the identifiers are distinct, and there is no other entry.
Returned == \A p \in Procs : proc[p].pc \in {"idle", "ret"}
NoConnClosed ==
    /\ hist.closedIds = {}
    /\ \A p \in Procs : ~(AtRet(p, "ConnClose") /\ proc[p].err = "nil")

C8_ConcurrentAcceptsStoreEachStreamOnce ==
    (Returned /\ ~closed /\ NoConnClosed) =>
        /\ \A s \in DOMAIN strm :
              Cardinality({i \in DOMAIN connections : connections[i] = s}) = 1
        /\ \A k \in DOMAIN issued :
              /\ issued[k].id \in DOMAIN connections
              /\ connections[issued[k].id] = issued[k].conn
        /\ Cardinality(DOMAIN connections) = Len(strm)
        /\ \A p \in Procs :
              AtRet(p, "ConnAccept") =>
                 (proc[p].err = "nil" <=> proc[p].id \in DOMAIN connections)

\* C8 witness: two accepts on the same service name, the second called while
\* the first was in progress, have both returned a connection identifier
C8_Witness ==
    \E p, q \in Procs :
        /\ p # q
        /\ AtRet(p, "ConnAccept") /\ AtRet(q, "ConnAccept")
        /\ proc[p].svc = proc[q].svc
        /\ proc[p].err = "nil" /\ proc[q].err = "nil"
        /\ "overlap" \in proc[q].pre
        /\ ~closed /\ NoConnClosed

\* C9: the identifiers issued so far are pairwise different (also those whose
\* entry has been removed); every identifier in the connection registry maps to
\* the stream it was issued for; no stream is stored under two identifiers.
C9_IdsFreshAndOwnStreams ==
    /\ \A i, j \in DOMAIN issued : i # j => issued[i].id # issued[j].id
    /\ \A k \in DOMAIN connections : IssuedConn(k) = {connections[k]}
    /\ \A k1, k2 \in DOMAIN connections :
          k1 # k2 => connections[k1] # connections[k2]

\* C9 witness: an identifier has been issued and removed by a successful
\* CloseConnection, and a later identifier is in the registry
C9_Witness ==
    /\ hist.closedIds # {}
    /\ \E k \in DOMAIN connections : \A c \in hist.closedIds : k # c
    /\ Len(issued) >= 2

\* the number of times x occurs in the sequence s
Count(x, s) == Cardinality({i \in DOMAIN s : s[i] = x})

\* C10: when the shutdown has finished its two loops it has called Close
\* exactly once on each listener and each stream in the registries and on
\* nothing else; when it has cleared them both registries are empty and the
\* flag is set; ReadConnection, WriteConnection and CloseConnection called
\* afterwards fail with NotFound.
C10_ShutdownClosesAllOnce ==
    \A p \in Procs :
        /\ proc[p].pc = "sdClear" =>
              /\ \A k \in DOMAIN listeners : Count(<<"l", listeners[k]>>, proc[p].swept) = 1
              /\ \A k \in DOMAIN connections : Count(<<"c", connections[k]>>, proc[p].swept) = 1
              /\ Len(proc[p].swept) =
                    Cardinality(DOMAIN listeners) + Cardinality(DOMAIN connections)
              /\ \A k \in DOMAIN listeners : lstn[listeners[k]] # "none"
              /\ \A k \in DOMAIN connections : strm[connections[k]] # "none"
        /\ (proc[p].pc \in {"sdUnlockC", "sdUnlockL"} \/ AtRet(p, "Shutdown")) =>
              /\ closed
              /\ listeners = EmptyMap
              /\ connections = EmptyMap
        /\ (proc[p].pc = "ret" /\ proc[p].op \in ConnOps /\ "closed" \in proc[p].pre) =>
              proc[p].err = "NotFound"

\* C10 witness: the shutdown has swept two open connections, and a read called
\* afterwards on one of their identifiers has returned
C10_Witness ==
    \E p, q \in Procs :
        /\ AtRet(q, "Shutdown")
        /\ Count(<<"c", 1>>, proc[q].swept) = 1 /\ Count(<<"c", 2>>, proc[q].swept) = 1
        /\ AtRet(p, "ConnRead") /\ "closed" \in proc[p].pre
        /\ \E k \in DOMAIN issued : issued[k].id = proc[p].cid
        /\ proc[p].cid \notin hist.closedIds

\* C11: the shutdown is terminal and idempotent.  From a state where the flag
\* is set, every step leaves it set and leaves both registries empty (a put is
\* discarded); a lookup made in such a state reports not-found; a step of a
\* shutdown made in such a state changes neither the flag, the registries nor
\* any listener or stream.
C11_ShutdownTerminalIdempotent ==
    [][closed =>
         /\ closed' /\ listeners' = EmptyMap /\ connections' = EmptyMap
         /\ \A p \in Procs :
               /\ (proc[p].pc \in {"getL_cs", "getC_cs"} /\ proc'[p] # proc[p]) =>
                     (proc'[p].pc = "ret" /\ proc'[p].err = "NotFound")
               /\ (proc[p].op = "Shutdown" /\ proc'[p] # proc[p]) =>
                     (listeners = EmptyMap /\ connections = EmptyMap /\ UNCHANGED env)]_vars

\* C11 witness: a shutdown called after the flag was set has returned, with a
\* listener and a stream created before
C11_Witness ==
    \E p \in Procs :
        /\ AtRet(p, "Shutdown") /\ "closed" \in proc[p].pre
        /\ lstn # <<>> /\ strm # <<>>

QueryOps == {"Query", "QueryName", "ConnAccept"}

\* C12: a Query, QueryByName or AcceptConnection whose underlying call fails
\* returns the underlying error and no connection identifier, issues no
\* identifier, and no step it takes (the lookup of the listener, the failed
\* call, the return) changes either registry.
C12_FailedCallLeavesRegistries ==
    [][\A p \in Procs :
         /\ (/\ proc'[p].pc = "ret" /\ proc[p].pc # "ret"
             /\ proc'[p].op \in QueryOps /\ proc'[p].err = "Underlying") =>
               /\ proc'[p].id = Nil
               /\ proc[p].pc \in {"idle", "accept"}
               /\ UNCHANGED <<closed, listeners, connections, issued, strm>>
         /\ (/\ proc'[p] # proc[p] /\ proc'[p].op = "ConnAccept"
             /\ proc'[p].pc \in {"getL", "getL_cs", "accept"}) =>
               UNCHANGED <<closed, listeners, connections>>]_vars

\* C12 witness: an AcceptConnection has failed in the underlying Accept while a
\* connection was in the registry
C12_Witness ==
    \E p \in Procs :
        /\ AtRet(p, "ConnAccept") /\ proc[p].err = "Underlying"
        /\ proc[p].id = Nil
        /\ connections # EmptyMap /\ listeners # EmptyMap

\* C13: CloseService and AcceptConnection on a service name that has no entry
\* in the listener registry when they look it up return NotFound from that
\* lookup; a NotFound is returned only from the lookup, before any call of the
\* underlying stack; and the steps up to there change no registry, listener or
\* stream.
C13_AbsentServiceNotFound ==
    [][\A p \in Procs :
         /\ (/\ proc[p].pc = "getL_cs" /\ proc'[p] # proc[p]
             /\ proc[p].svc \notin DOMAIN listeners) =>
               /\ proc'[p].pc = "ret" /\ proc'[p].err = "NotFound"
               /\ UNCHANGED <<regs, env>>
         /\ (/\ proc'[p].pc = "ret" /\ proc[p].pc # "ret"
             /\ proc'[p].op \in ServiceOps /\ proc'[p].err = "NotFound") =>
               (proc[p].pc = "getL_cs" /\ ~proc'[p].touched)
         /\ (/\ proc'[p] # proc[p] /\ proc'[p].op \in ServiceOps
             /\ proc'[p].pc \in {"getL", "getL_cs"}) =>
               UNCHANGED <<regs, env>>]_vars

\* C13 witness: before any shutdown, a CloseService or AcceptConnection has
\* returned NotFound on a name that had been registered and removed since
C13_Witness ==
    \E p \in Procs :
        /\ proc[p].pc = "ret" /\ proc[p].op \in ServiceOps
        /\ proc[p].err = "NotFound"
        /\ ~closed /\ "closed" \notin proc[p].pre
        /\ \A q \in Procs : proc[q].op # "Shutdown"
        /\ lstn # <<>> /\ lstn[1] # "none"
        /\ proc[p].svc \notin DOMAIN listeners

\* C14: a lookup never observes a half-torn-down state.  While a caller is
\* inside getListener or getConnection, either the flag is not set and no
\* shutdown has closed anything yet (the registries are as they were before
\* it), or the flag is set, both registries are empty and the lookup reports
\* not-found; and no shutdown holds the lock of the registry being read.
C14_LookupSeesNoHalfTornDown ==
    \A p \in Procs :
        /\ proc[p].pc \in {"getL_cs", "getC_cs"} =>
              \/ /\ ~closed
                 /\ \A q \in Procs : proc[q].swept = <<>>
              \/ /\ closed
                 /\ listeners = EmptyMap /\ connections = EmptyMap
                 /\ GetListener(proc[p].svc) = Nil
                 /\ GetConnection(proc[p].cid) = Nil
        /\ proc[p].pc = "getL_cs" => listenersMutex.w = NoProc
        /\ proc[p].pc = "getC_cs" => connectionsMutex.w = NoProc

\* C14 witness: a caller is inside getConnection, with a connection stored,
\* while a shutdown holds the listener lock and waits for the connection lock
C14_Witness ==
    \E p, q \in Procs :
        /\ proc[p].pc = "getC_cs" /\ proc[p].cid \in DOMAIN connections
        /\ proc[q].pc = "sdLockC" /\ listenersMutex.w = q
        /\ ~closed

\* C15: ReadConnection on a live identifier issues a further read only when
\* every read so far in this call returned exactly BufSize bytes; when it
\* returns without error the last chunk is shorter than BufSize, every chunk
\* before it has exactly BufSize bytes, and the data returned are the chunks
\* in the order they were read; when it returns the error of a read, every
\* chunk before has exactly BufSize bytes.
C15_ReadStopsAtShortRead ==
    \A p \in Procs :
        LET a == proc[p].arr IN
        /\ proc[p].pc = "read" => \A i \in DOMAIN a : a[i] = BufSize
        /\ (AtRet(p, "ConnRead") /\ proc[p].err = "nil") =>
              /\ Len(a) >= 1
              /\ a[Len(a)] < BufSize
              /\ \A i \in 1 .. (Len(a) - 1) : a[i] = BufSize
        /\ (AtRet(p, "ConnRead") /\ proc[p].err = "Underlying") =>
              \A i \in DOMAIN a : a[i] = BufSize
        /\ (AtRet(p, "ConnRead") /\ proc[p].err = "NotFound") => a = <<>>

\* C15 witness: a ReadConnection has returned after a read of exactly BufSize
\* bytes followed by a read of BufSize - 1 bytes
C15_Witness ==
    \E p \in Procs :
        /\ AtRet(p, "ConnRead") /\ proc[p].err = "nil"
        /\ proc[p].arr = <<BufSize, BufSize - 1>>

\* C16: Query with an identity that is neither empty nor a well-formed key, and
\* NodeInfo with an identity that is not a well-formed key, return Malformed
\* in their first step, which changes no registry, lock, listener or stream
\* and issues no identifier; Query with the empty identity does not return
\* Malformed: it returns the result of the underlying query.
C16_MalformedIdentityRejectedFirst ==
    [][\A p \in Procs :
         (proc[p].pc = "idle" /\ proc'[p].pc # "idle") =>
            /\ (\/ proc'[p].op = "Query" /\ proc'[p].ident \notin WellFormedKeys \cup {""}
                \/ proc'[p].op = "NodeInfo" /\ proc'[p].ident \notin WellFormedKeys) =>
                  /\ proc'[p].pc = "ret" /\ proc'[p].err = "Malformed"
                  /\ proc'[p].id = Nil
                  /\ UNCHANGED <<regs, locks, env>>
            /\ (proc'[p].op = "Query" /\ proc'[p].ident = "") =>
                  /\ proc'[p].err \in Errs
                  /\ proc'[p].err = "nil" <=> proc'[p].pc = "setC"
            /\ proc'[p].err = "Malformed" =>
                  (proc'[p].op \in {"Query", "NodeInfo"} /\ proc'[p].ident \notin WellFormedKeys)]_vars

\* C16 witness: with a connection stored, one caller's Query with an
\* ill-formed identity has returned Malformed and another caller's Query with
\* the empty identity has stored its stream
C16_Witness ==
    \E p, q \in Procs :
        /\ AtRet(p, "Query") /\ proc[p].ident = "zz" /\ proc[p].err = "Malformed"
        /\ AtRet(q, "Query") /\ proc[q].ident = "" /\ proc[q].err = "nil"
        /\ proc[q].id \in DOMAIN connections

\* p holds the lock (as the writer or as a reader)
Holds(m, p) == m.w = p \/ p \in m.r
\* the positions at which p is about to take the listener / connection lock
WaitsL(p) == proc[p].pc \in {"getL", "setL", "sdLockL"}
WaitsC(p) == proc[p].pc \in {"getC", "setC", "sdLockC"}
\* p cannot take the lock it is waiting for
Blocked(p) ==
    \/ proc[p].pc = "getL" /\ listenersMutex.w # NoProc
    \/ proc[p].pc \in {"setL", "sdLockL"} /\ listenersMutex # Free
    \/ proc[p].pc = "getC" /\ connectionsMutex.w # NoProc
    \/ proc[p].pc \in {"setC", "sdLockC"} /\ connectionsMutex # Free
\* p cannot take the lock it is waiting for, and q holds that lock
BlockedBy(p, q) ==
    /\ Blocked(p)
    /\ \/ WaitsL(p) /\ Holds(listenersMutex, q)
       \/ WaitsC(p) /\ Holds(connectionsMutex, q)

\* C17: the two registry locks never deadlock.  Only a shutdown holds both
\* locks; nobody waits for the listener lock while holding the connection lock
\* (the shutdown takes the listener lock first); a lock is held only inside an
\* accessor or inside the shutdown; nobody waits for a lock it holds, no two
\* callers wait for each other, and every caller that cannot take a lock waits
\* for a holder that can go on, or whose own holder can go on.
C17_LocksNeverDeadlock ==
    /\ \A p \in Procs :
          /\ (Holds(listenersMutex, p) /\ Holds(connectionsMutex, p)) =>
                proc[p].op = "Shutdown"
          /\ Holds(connectionsMutex, p) => ~WaitsL(p)
          /\ Holds(listenersMutex, p) =>
                proc[p].pc \in {"getL_cs", "setL_cs", "sdLockC", "sdCloseL", "sdCloseC",
                                "sdClear", "sdUnlockC", "sdUnlockL"}
          /\ Holds(connectionsMutex, p) =>
                proc[p].pc \in {"getC_cs", "setC_cs", "sdCloseL", "sdCloseC",
                                "sdClear", "sdUnlockC"}
          /\ ~BlockedBy(p, p)
          /\ Blocked(p) =>
                \E q \in Procs :
                   /\ BlockedBy(p, q)
                   /\ \/ ~Blocked(q)
                      \/ \E r \in Procs : BlockedBy(q, r) /\ ~Blocked(r)
    /\ \A p, q \in Procs : ~(BlockedBy(p, q) /\ BlockedBy(q, p))

\* C17 witness: a shutdown holds the listener lock and cannot take the
\* connection lock, which a caller holds inside setConnection
C17_Witness ==
    \E p, q \in Procs :
        /\ proc[q].pc = "sdLockC" /\ Holds(listenersMutex, q)
        /\ proc[p].pc = "setC_cs" /\ connectionsMutex.w = p
        /\ BlockedBy(q, p)

\* C18 (the claim as stated; the code violates it): whenever no operation is
\* in progress, every listener and every stream the underlying stack has
\* returned is in a registry or has had Close called on it.
C18_NoResourceLeaked ==
    Returned =>
        /\ \A l \in DOMAIN lstn :
              lstn[l] # "none" \/ \E k \in DOMAIN listeners : listeners[k] = l
        /\ \A s \in DOMAIN strm :
              strm[s] # "none" \/ \E k \in DOMAIN connections : connections[k] = s

\* p is inside a call of the underlying stack made by a facade operation, or
\* outside the registry accessors altogether
InStackCall(p) == proc[p].pc \in {"lclose", "accept", "cclose", "write", "read"}
OutsideAccessors(p) == InStackCall(p) \/ proc[p].pc \in {"idle", "ret"}
\* p is inside a registry lookup or store, or about to take the lock for it
InAccessor(p) ==
    proc[p].pc \in {"getL", "getL_cs", "setL", "setL_cs", "getC", "getC_cs", "setC", "setC_cs"}

\* C19: a caller that is inside a call of the underlying stack made by a
\* facade operation (or outside the accessors) holds no registry lock; hence,
\* whatever callers stay for ever inside Accept, Read, Write or Close, every
\* registry lookup or store that a caller has begun completes, and every
\* shutdown that has been called returns.
C19_NoLockAcrossStackCalls ==
    /\ [](\A p \in Procs :
            OutsideAccessors(p) =>
               ~Holds(listenersMutex, p) /\ ~Holds(connectionsMutex, p))
    /\ \A p \in Procs : InAccessor(p) ~> ~InAccessor(p)
    /\ \A p \in Procs : (proc[p].pc = "sdLockL") ~> AtRet(p, "Shutdown")

\* C19 witness: a shutdown has been called and waits for the listener lock
\* while another caller is inside Read on a stream that is in the registry
C19_Witness ==
    \E p, q \in Procs :
        /\ proc[p].pc = "read" /\ proc[p].cid \in DOMAIN connections
        /\ proc[q].pc = "sdLockL"

\* C20: every step of an operation changes only the registry the operation is
\* about.  A step of ReadConnection, WriteConnection, Resolve or NodeInfo
\* changes neither registry nor the flag; a step of RegisterService or
\* CloseService does not change the connection registry; a step of
\* AcceptConnection, CloseConnection, Query or QueryByName does not change the
\* listener registry; a step of anything but the shutdown does not change the
\* flag.
C20_OperationsChangeOnlyTheirRegistry ==
    [][\A p \in Procs :
         proc'[p] # proc[p] =>
            LET o == IF proc[p].op # "none" THEN proc[p].op ELSE proc'[p].op IN
            /\ o \in {"ConnRead", "ConnWrite", "Resolve", "NodeInfo"} =>
                  UNCHANGED <<closed, listeners, connections>>
            /\ o \in {"ServiceRegister", "ServiceClose"} => UNCHANGED connections
            /\ o \in {"ConnAccept", "ConnClose", "Query", "QueryName"} =>
                  UNCHANGED listeners
            /\ o # "Shutdown" => UNCHANGED closed]_vars

\* C20 witness: with an entry in each registry, a ReadConnection has returned
\* data while another caller's RegisterService is storing its listener
C20_Witness ==
    \E p, q \in Procs :
        /\ AtRet(p, "ConnRead") /\ proc[p].err = "nil"
        /\ proc[q].op = "ServiceRegister" /\ proc[q].pc = "setL_cs"
        /\ listeners # EmptyMap /\ connections # EmptyMap

====
